---- MODULE Spec2Model ----
(***************************************************************************)
(* image-builder: the recursive build-and-cache algorithm of               *)
(* image_builder/cli.py (build_with_cache._build) with the helpers of      *)
(* image_builder/docker.py and the dry-run switch of                       *)
(* image_builder/libs/process.py.                                          *)
(*                                                                         *)
(* Strings that the code compares character by character (paths, file      *)
(* contents, digests, hash input) are sequences of character codes.        *)
(* sha256 is modelled as injective: the hex digest of a hasher is the      *)
(* byte sequence that was fed to it.                                       *)
(***************************************************************************)
EXTENDS Integers, Sequences, FiniteSets, TLC

\* ------------------------------------------------------------------ bounds
MaxInvocations == 2
MaxFaults == 1
MaxEdits == 1

\* ------------------------------------------------------- character codes
SEP == 47
STAR == 42
BANG == 33
HASHMARK == 35

\* ------------------------------------------------------------ pure helpers

None == [kind |-> "None", val |-> <<>>]
\* a return value that is lost on the way
StrLost(s) == None

Str(s) == [kind |-> "str", val |-> s]
Raised == [kind |-> "raise", val |-> <<>>]

RECURSIVE LexLess(_, _)
LexLess(p, q) ==
    IF p = <<>> THEN q # <<>>
    ELSE IF q = <<>> THEN FALSE
    ELSE IF Head(p) # Head(q) THEN Head(p) < Head(q)
    ELSE LexLess(Tail(p), Tail(q))

RECURSIVE Insert(_, _)
Insert(x, s) ==
    IF s = <<>> THEN <<x>>
    ELSE IF LexLess(Head(s), x) THEN <<Head(s)>> \o Insert(x, Tail(s))
    ELSE <<x>> \o s

unsorted(s) == s

RECURSIVE sorted(_)
sorted(s) == IF s = <<>> THEN <<>> ELSE Insert(Head(s), sorted(Tail(s)))

RECURSIVE Match(_, _)
Match(pat, p) ==
    IF pat = <<>> THEN p = <<>>
    ELSE IF Head(pat) = STAR
         THEN Match(Tail(pat), p)
              \/ (p # <<>> /\ Head(p) # SEP /\ Match(pat, Tail(p)))
         ELSE p # <<>> /\ Head(p) = Head(pat) /\ Match(Tail(pat), Tail(p))

Under(d, p) ==
    Len(p) > Len(d) + 1 /\ SubSeq(p, 1, Len(d)) = d /\ p[Len(d) + 1] = SEP

RECURSIVE Concat(_)
Concat(ss) == IF ss = <<>> THEN <<>> ELSE Head(ss) \o Concat(Tail(ss))

\* ------------------------------------------------------------------ state
VARIABLES
    DOCKER_REGISTRY,  \* config.DOCKER_REGISTRY (default or environment override)
    dockerfiles,      \* parsed Dockerfile of each image name: parents and sources
    environ,          \* IMAGE_BUILDER_BUILD_CONTEXT_{image_name}, "" when unset
    dockerignore,     \* lines of the .dockerignore file of each directory
    fs,               \* regular files: absolute path -> content
    listdir,          \* the order in which the file system lists entries
    cwd,              \* the process' working directory
    remote,           \* registries: image reference -> digest
    local,            \* the docker daemon's local images: reference -> digest
    nextId,           \* number of artifacts built so far
    args,             \* the argparse namespace of the running invocation
    stack,            \* call frames of _build, innermost first
    result,           \* outcome of build_with_cache
    log,              \* steps and external calls of the running invocation
    prev,             \* what the previous invocation was and gave
    snapshot,         \* the files as the running invocation found them
    hist,             \* what was built (and what failed) over all invocations
    ninv, nfaults, nedits

vars == <<DOCKER_REGISTRY, dockerfiles, environ, dockerignore, fs, listdir, cwd,
          remote, local, nextId, args, stack, result, log, prev,
          snapshot, hist, ninv, nfaults, nedits>>

envVars == <<DOCKER_REGISTRY, dockerfiles, environ, dockerignore, listdir>>

\* ------------------------------------------------------------ file system

Join(d, p) == d \o <<SEP>> \o p
IsAbs(p) == p # <<>> /\ Head(p) = SEP
abspath(d, p) == IF IsAbs(p) THEN p ELSE Join(d, p)
Rel(d, q) == SubSeq(q, Len(d) + 2, Len(q))

Entries(f) ==
    DOMAIN f \cup
    UNION { { SubSeq(k, 1, i - 1) : i \in { j \in 2..Len(k) : k[j] = SEP } } :
            k \in DOMAIN f }

isfile(f, d, p) == abspath(d, p) \in DOMAIN f
isdir(f, d, p) == \E k \in DOMAIN f : Under(abspath(d, p), k)

\* glob.glob(pattern): the matching entries, in the file system's order,
\* named as the pattern names them (relative to cwd or absolute).
glob_glob(f, ld, d, pat) ==
    IF IsAbs(pat)
    THEN SelectSeq(ld, LAMBDA q : q \in Entries(f) /\ Match(pat, q))
    ELSE LET hits == SelectSeq(ld, LAMBDA q :
                        q \in Entries(f) /\ Under(d, q) /\ Match(pat, Rel(d, q)))
         IN [i \in 1..Len(hits) |-> Rel(d, hits[i])]

\* glob.glob(f"{p}/**", recursive=True): everything below p (the entry "p/"
\* itself is no regular file and is left out).
glob_recursive(f, ld, d, p) ==
    LET hits == SelectSeq(ld, LAMBDA q : q \in Entries(f) /\ Under(abspath(d, p), q))
    IN [i \in 1..Len(hits) |->
            IF IsAbs(p) THEN hits[i] ELSE Rel(d, hits[i])]

Range(s) == { s[i] : i \in 1..Len(s) }

\* --------------------------------------------------------- .dockerignore

\* docker.py _glob: the expansion of one pattern, directories recursively.
RECURSIVE expand_all(_, _, _, _)
expand_all(f, ld, d, es) ==
    IF es = <<>> THEN {}
    ELSE (IF isdir(f, d, Head(es))
          THEN Range(glob_recursive(f, ld, d, Head(es)))
          ELSE {Head(es)})
         \cup expand_all(f, ld, d, Tail(es))

_glob(f, ld, d, pattern) == expand_all(f, ld, d, glob_glob(f, ld, d, pattern))

RECURSIVE ignore_fold(_, _, _, _, _)
ignore_fold(f, ld, d, lines, files) ==
    IF lines = <<>> THEN files
    ELSE LET line == Head(lines)
             step == IF line # <<>> /\ Head(line) = HASHMARK THEN files
                     ELSE IF line # <<>> /\ Head(line) = BANG
                          THEN (files \ _glob(f, ld, d, Tail(line)))
                               \cup _glob(f, ld, d, line)
                          ELSE files \cup _glob(f, ld, d, line)
         IN ignore_fold(f, ld, d, Tail(lines), step)

\* parse_dockerignore(path) called with the process in directory d
parse_dockerignore(f, ld, ign, d, path) ==
    IF path \notin DOMAIN ign THEN {}
    ELSE ignore_fold(f, ld, d, ign[path], {})

\* ----------------------------------------------------------------- hasher

\* the path strings handed to update_file_hash, in order (cli.py 128-137)
RECURSIVE walk_entries(_, _, _, _)
walk_entries(f, ld, d, es) ==
    IF es = <<>> THEN <<>>
    ELSE (IF isdir(f, d, Head(es))
          THEN sorted(glob_recursive(f, ld, d, Head(es)))
          ELSE <<Head(es)>>)
         \o walk_entries(f, ld, d, Tail(es))

RECURSIVE walk_srcs(_, _, _, _)
walk_srcs(f, ld, d, srcs) ==
    IF srcs = <<>> THEN <<>>
    ELSE walk_entries(f, ld, d, sorted(glob_glob(f, ld, d, Head(srcs))))
         \o walk_srcs(f, ld, d, Tail(srcs))

absorbs(f, d, ignored, p) == isfile(f, d, p) /\ p \notin ignored

update_file_hash(hasher, f, d, ignored, p) ==
    IF ~isfile(f, d, p) THEN hasher
    ELSE IF p \in ignored THEN hasher
    ELSE hasher \o f[abspath(d, p)]

RECURSIVE hash_paths(_, _, _, _, _)
hash_paths(hasher, f, d, ignored, ps) ==
    IF ps = <<>> THEN hasher
    ELSE hash_paths(update_file_hash(hasher, f, d, ignored, Head(ps)),
                    f, d, ignored, Tail(ps))

\* the files absorbed, as absolute paths, in order
absorbed_files(f, ld, d, ignored, srcs) ==
    LET ps == SelectSeq(walk_srcs(f, ld, d, srcs),
                        LAMBDA p : absorbs(f, d, ignored, p))
    IN [i \in 1..Len(ps) |-> abspath(d, ps[i])]

\* a hasher that absorbs nothing
hasher_keep(hasher, bytes) == hasher

\* hasher.update(parent_digest.encode())
hasher_update(hasher, bytes) == hasher \o bytes

\* hasher.hexdigest() after all files of srcs (sha256 taken as injective)
files_hash(hasher, f, ld, d, ignored, srcs) ==
    hash_paths(hasher, f, d, ignored, walk_srcs(f, ld, d, srcs))

\* ------------------------------------------------- names, tags, references

DefaultRegistry == "docker-registry.example.com:5000"
LegacyHost == "docker-registry.example.com:5000"
CiRegistry == "registry.ci:5000"
OtherRegistry == "other.example.com"

GitShaTag(sha) == [kind |-> "git_sha", val |-> <<sha>>]
HashTag(h) == [kind |-> "hash", val |-> h]
Lit(n) == [kind |-> "lit", val |-> <<n>>]
ImageTagArg == [kind |-> "${IMAGE_TAG}", val |-> <<>>]
RegistryArg == "${REGISTRY}"

Ref(host, name, tag) == [host |-> host, name |-> name, tag |-> tag]
NoRef == Ref("", "", [kind |-> "", val |-> <<>>])

Digest(n) == <<n + 10>>

EmptyStore == [r \in {} |-> <<>>]
Put(store, r, d) ==
    [x \in DOMAIN store \cup {r} |-> IF x = r THEN d ELSE store[x]]

\* ------------------------------------------------------------- the inputs

ArgsPath == <<SEP, 99>>
BaseContext == <<SEP, 98>>
DockerfilePath ==
    [n \in {"app", "base", "ghost"} |->
        IF n = "app" THEN <<SEP, 65>> ELSE IF n = "base" THEN <<SEP, 66>>
        ELSE <<SEP, 71>>]

InitFs ==
    (<<SEP, 65>> :> <<1>>) @@ (<<SEP, 66>> :> <<1>>)
    @@ (Join(ArgsPath, <<97>>) :> <<1>>)
    @@ (Join(ArgsPath, <<100, SEP, 97>>) :> <<1>>)
    @@ (Join(ArgsPath, <<100, SEP, 98>>) :> <<2>>)
    @@ (Join(BaseContext, <<100, SEP, 97>>) :> <<2>>)

InitIgnore == (ArgsPath :> << <<100, SEP, 98>> >>)

BaseDockerfile ==
    [parent_images |-> << Ref("", "python", Lit(3)) >>,
     copied_srcs |-> << <<100>> >>,
     added_srcs |-> <<>>]

AppDockerfile(parents) ==
    [parent_images |-> parents,
     copied_srcs |-> << <<97>> >>,
     added_srcs |-> <<>>]

AppParents ==
    { << Ref(RegistryArg, "base", Lit(1)) >>,
      << Ref(RegistryArg, "base", ImageTagArg),
         Ref(RegistryArg, "base", ImageTagArg) >> }

RECURSIVE SeqOf(_)
SeqOf(S) == IF S = {} THEN <<>>
            ELSE LET x == CHOOSE y \in S : TRUE IN <<x>> \o SeqOf(S \ {x})

Reverse(s) == [i \in 1..Len(s) |-> s[Len(s) + 1 - i]]

\* ------------------------------------------------------------- Dockerfile

\* Dockerfile.lines: ${REGISTRY} and ${IMAGE_TAG} replaced by the build args
render(build_arg, parent) ==
    Ref(IF parent.host = RegistryArg /\ "REGISTRY" \in DOMAIN build_arg
            THEN build_arg["REGISTRY"] ELSE parent.host,
        parent.name,
        IF parent.tag = ImageTagArg THEN build_arg["IMAGE_TAG"] ELSE parent.tag)

parent_images(df, build_arg) ==
    [i \in 1..Len(df.parent_images) |-> render(build_arg, df.parent_images[i])]

locate_dockerfile(image_name) == DockerfilePath[image_name]

\* build_arg of build_with_cache (cli.py 36-39)
build_arg_of(a) ==
    [k \in DOMAIN a.build_arg \cup {"IMAGE_TAG"} |->
        IF k = "IMAGE_TAG" THEN a.git_sha_tag ELSE a.build_arg[k]]

srcs_of(image_name, df) ==
    <<locate_dockerfile(image_name)>> \o df.copied_srcs \o df.added_srcs

\* ------------------------------------------------------------------- Init

NoArgs ==
    [registry |-> "", name |-> "", git_sha |-> 0, git_sha_tag |-> GitShaTag(0),
     dry_run |-> FALSE, build_arg |-> [k \in {} |-> ""],
     extra_tag |-> <<>>, extra_name |-> <<>>, path |-> ArgsPath]

NoHist == [built |-> {}, twice |-> {}, push_failed |-> FALSE, build_failed |-> FALSE]

Idle == [status |-> "idle", code |-> -1, val |-> <<>>]
Running == [status |-> "running", code |-> -1, val |-> <<>>]

NoPrev == [valid |-> FALSE, args |-> NoArgs, result |-> Idle, fs |-> InitFs,
           clean |-> TRUE,
           builds |-> [n \in {"app", "base", "ghost"} |-> 0],
           hashes |-> [n \in {"app", "base", "ghost"} |-> <<>>],
           absorbed |-> [n \in {"app", "base", "ghost"} |-> <<>>],
           digests |-> [n \in {"app", "base", "ghost"} |-> <<>>]]

\* the content hash of base over the initial files, in build context d
InitBaseHash(ld, d) ==
    files_hash(<<>>, InitFs, ld, d,
               parse_dockerignore(InitFs, ld, InitIgnore, d, d),
               srcs_of("base", BaseDockerfile))

Init ==
    /\ DOCKER_REGISTRY \in {DefaultRegistry, CiRegistry}
    /\ \E ps \in AppParents :
          dockerfiles = (DockerfilePath["app"] :> AppDockerfile(ps))
                        @@ (DockerfilePath["base"] :> BaseDockerfile)
    /\ environ \in { [n \in {"app", "base", "ghost"} |->
                        IF n = "base" THEN c ELSE <<>>] :
                     c \in {<<>>, BaseContext} }
    /\ dockerignore = InitIgnore
    /\ fs = InitFs
    /\ listdir = Reverse(sorted(SeqOf(Entries(InitFs))))
    /\ cwd = ArgsPath
    /\ remote = IF DOCKER_REGISTRY = LegacyHost THEN EmptyStore
                ELSE Put(EmptyStore,
                         Ref(LegacyHost, "base",
                             HashTag(InitBaseHash(listdir,
                                 IF environ["base"] = <<>> THEN ArgsPath
                                 ELSE environ["base"]))),
                         Digest(0))
    /\ local = EmptyStore
    /\ nextId = 0
    /\ args = NoArgs
    /\ stack = <<>>
    /\ result = Idle
    /\ log = <<>>
    /\ prev = NoPrev
    /\ snapshot = InitFs
    /\ hist = NoHist
    /\ ninv = 0 /\ nfaults = 0 /\ nedits = 0

\* ------------------------------------------------------------ environment

\* one byte of one file is altered between two invocations
EditFile ==
    /\ result.status = "exit" \/ result.status = "exception"
    /\ ninv < MaxInvocations
    /\ nedits < MaxEdits
    /\ \E k \in DOMAIN fs : \E i \in 1..Len(fs[k]) :
          fs' = [fs EXCEPT ![k][i] = 3 - @]
    /\ nedits' = nedits + 1
    /\ UNCHANGED <<envVars, cwd, remote, local, nextId, args, stack, result,
                   log, prev, snapshot, hist, ninv, nfaults>>

\* --------------------------------------------------------- the call frames

Frame(registry, image_name, git_sha) ==
    [registry |-> registry, image_name |-> image_name, git_sha |-> git_sha,
     pc |-> "start", build_context |-> <<>>, ignored |-> {},
     parent_images |-> <<>>, i |-> 1, hasher |-> <<>>,
     hash_tag |-> HashTag(<<>>), parent_digests |-> <<>>, via |-> ""]

Top == stack[1]
Image(fr) == [host |-> fr.registry, name |-> fr.image_name]
ImageRef(fr, tag) == Ref(fr.registry, fr.image_name, tag)
At(pc) == stack # <<>> /\ Top.pc = pc
Goto(pc) == stack' = <<[Top EXCEPT !.pc = pc]>> \o Tail(stack)
GotoVia(pc, via) == stack' = <<[Top EXCEPT !.pc = pc, !.via = via]>> \o Tail(stack)

Entry(op, a, b, ok, val) ==
    [op |-> op, name |-> Top.image_name, a |-> a, b |-> b, ok |-> ok,
     val |-> val, files |-> <<>>, run |-> ~args.dry_run, depth |-> Len(stack)]
Logged(es) == log' = log \o es

\* outcomes an external call may have
Outcomes == IF ~args.dry_run /\ nfaults < MaxFaults THEN {TRUE, FALSE} ELSE {TRUE}
Count(ok) == nfaults' = nfaults + (IF ok THEN 0 ELSE 1)

\* the command lines tried: --registry, --name, --dry-run
Request(registry, name, dry_run) ==
    [registry |-> registry, name |-> name, dry_run |-> dry_run]
Requests ==
    { Request(DOCKER_REGISTRY, "app", FALSE), Request(DOCKER_REGISTRY, "app", TRUE),
      Request(DOCKER_REGISTRY, "base", FALSE),
      Request(DOCKER_REGISTRY, "ghost", FALSE), Request(OtherRegistry, "app", FALSE) }

\* what a finished invocation leaves for the comparison with the next one
count(l, op, name) ==
    Cardinality({ i \in 1..Len(l) : l[i].op = op /\ l[i].name = name })
clean(l) ==
    \A i \in 1..Len(l) :
        l[i].op \in {"tag", "push", "build", "digest"} => l[i].ok
last_hash(l, name) ==
    LET is == { i \in 1..Len(l) : l[i].op = "hash" /\ l[i].name = name }
    IN IF is = {} THEN <<>>
       ELSE << l[CHOOSE i \in is : \A j \in is : j <= i].val >>
last_absorbed(l, name) ==
    LET is == { i \in 1..Len(l) : l[i].op = "hash" /\ l[i].name = name }
    IN IF is = {} THEN <<>>
       ELSE l[CHOOSE i \in is : \A j \in is : j <= i].files
last_digest(l, name) ==
    LET is == { i \in 1..Len(l) :
                  l[i].op = "return" /\ l[i].name = name /\ l[i].ok }
    IN IF is = {} THEN <<>>
       ELSE l[CHOOSE i \in is : \A j \in is : j <= i].val
Names == {"app", "base", "ghost"}
Summary(a, res, l, f) ==
    [valid |-> res.status # "idle", args |-> a, result |-> res, fs |-> f,
     clean |-> clean(l),
     builds |-> [n \in Names |-> count(l, "build", n)],
     hashes |-> [n \in Names |-> last_hash(l, n)],
     absorbed |-> [n \in Names |-> last_absorbed(l, n)],
     digests |-> [n \in Names |-> last_digest(l, n)]]

\* main(): a new process parses its arguments and changes to PATH
StartInvocation ==
    /\ result.status # "running"
    /\ ninv < MaxInvocations
    /\ \E rq \in Requests, sha \in 1..(ninv + 1) :
          /\ args' = [registry |-> rq.registry, name |-> rq.name, git_sha |-> sha,
                      git_sha_tag |-> GitShaTag(sha), dry_run |-> rq.dry_run,
                      build_arg |-> ("REGISTRY" :> DOCKER_REGISTRY),
                      extra_tag |-> << Lit(2) >>,
                      extra_name |-> << Ref(OtherRegistry, rq.name, Lit(2)) >>,
                      path |-> ArgsPath]
          /\ stack' = << Frame(rq.registry, rq.name, GitShaTag(sha)) >>
    /\ cwd' = ArgsPath
    /\ result' = Running
    /\ log' = <<>>
    /\ prev' = Summary(args, result, log, snapshot)
    /\ snapshot' = fs
    /\ ninv' = ninv + 1
    /\ UNCHANGED <<envVars, fs, remote, local, nextId, hist, nfaults, nedits>>

\* --------------------------------------------------- leaving a call frame

\* an exception that is caught at the top and turned into status 3
RaiseCaught(es) ==
    /\ stack' = <<>>
    /\ result' = [status |-> "exit", code |-> 3, val |-> <<>>]
    /\ Logged(es \o << Entry("raise", NoRef, NoRef, FALSE, <<>>) >>)

\* an exception leaves every frame: build_with_cache catches nothing
Raise(es) ==
    /\ stack' = <<>>
    /\ result' = [status |-> "exception", code |-> -1, val |-> <<>>]
    /\ Logged(es \o << Entry("raise", NoRef, NoRef, FALSE, <<>>) >>)

\* a return whose caller goes on with its next parent even after None
ReturnTolerated(es, v) ==
    LET e == Entry("return", ImageRef(Top, Top.git_sha), NoRef,
                   v.kind = "str", v.val)
    IN IF Len(stack) = 1
       THEN /\ stack' = <<>>
            /\ result' = [status |-> "exit",
                          code |-> IF v.kind = "str" /\ v.val # <<>> THEN 0 ELSE 3,
                          val |-> v.val]
            /\ Logged(es \o <<e>>)
       ELSE /\ stack' = << [stack[2] EXCEPT
                              !.hasher = hasher_update(@, v.val),
                              !.parent_digests = Append(@, v.val),
                              !.i = @ + 1] >> \o Tail(Tail(stack))
            /\ UNCHANGED result
            /\ Logged(es \o <<e>>)

\* a return after which the caller resolves the same parent once more
ReturnRepeated(es, v) ==
    LET e == Entry("return", ImageRef(Top, Top.git_sha), NoRef,
                   v.kind = "str", v.val)
    IN IF Len(stack) = 1
       THEN /\ stack' = <<>>
            /\ result' = [status |-> "exit",
                          code |-> IF v.kind = "str" /\ v.val # <<>> THEN 0 ELSE 3,
                          val |-> v.val]
            /\ Logged(es \o <<e>>)
       ELSE IF v.kind = "None"
            THEN Raise(es \o <<e>>)
            ELSE /\ stack' = << [stack[2] EXCEPT
                                   !.hasher = hasher_update(@, v.val),
                                   !.parent_digests = Append(@, v.val)] >>
                               \o Tail(Tail(stack))
                 /\ UNCHANGED result
                 /\ Logged(es \o <<e>>)

\* `return v` of the innermost frame: to build_with_cache (cli.py 200) or
\* to the loop over the parents of the calling frame (cli.py 99-104)
Return(es, v) ==
    LET e == Entry("return", ImageRef(Top, Top.git_sha), NoRef,
                   v.kind = "str", v.val)
    IN IF Len(stack) = 1
       THEN /\ stack' = <<>>
            /\ result' = [status |-> "exit",
                          code |-> IF v.kind = "str" /\ v.val # <<>> THEN 0 ELSE 3,
                          val |-> v.val]
            /\ Logged(es \o <<e>>)
       ELSE IF v.kind = "None"
            THEN Raise(es \o <<e>>)
            ELSE /\ stack' = << [stack[2] EXCEPT
                                   !.hasher = hasher_update(@, v.val),
                                   !.parent_digests = Append(@, v.val),
                                   !.i = @ + 1] >> \o Tail(Tail(stack))
                 /\ UNCHANGED result
                 /\ Logged(es \o <<e>>)

\* ------------------------------------------------------- external commands

\* a registry in which no pull ever finds anything
pull_never(r) == FALSE

\* docker pull: succeeds exactly when the registry holds the reference
pull_ok(r) == r \in DOMAIN remote

\* a digest lookup that answers without reading the registry
DigestAssumed(r) == {Digest(0)}

\* get_image_digest: the docker-content-digest header, "" without it
DigestOutcomes(r) ==
    IF r \notin DOMAIN remote THEN {<<>>}
    ELSE {remote[r]} \cup (IF nfaults < MaxFaults THEN {<<>>} ELSE {})

\* a docker tag that reports success and tags nothing
tagged_nothing(store, src, dst) == store

\* docker tag src dst, when it runs and succeeds
tagged(store, src, dst) ==
    IF src \in DOMAIN store THEN Put(store, dst, store[src]) ELSE store

\* _tag_to_extra_tags (cli.py 25-31): every tag is tried, failures are logged
extra_dsts(a, fr) ==
    [i \in 1..Len(a.extra_tag) |-> ImageRef(fr, a.extra_tag[i])] \o a.extra_name

\* extra tags that are given up at the first one that fails
RECURSIVE tag_until_failure(_, _, _, _, _)
tag_until_failure(store, src, dsts, fails, i) ==
    IF i > Len(dsts) \/ i \in fails THEN store
    ELSE tag_until_failure(tagged(store, src, dsts[i]), src, dsts, fails, i + 1)

RECURSIVE tag_all(_, _, _, _, _)
tag_all(store, src, dsts, fails, i) ==
    IF i > Len(dsts) THEN store
    ELSE tag_all(IF i \in fails THEN store ELSE tagged(store, src, dsts[i]),
                 src, dsts, fails, i + 1)

_tag_to_extra_tags(fails) ==
    LET src == ImageRef(Top, Top.git_sha)
        dsts == extra_dsts(args, Top)
    IN /\ local' = IF args.dry_run THEN local
                   ELSE tag_all(local, src, dsts, fails, 1)
       /\ nfaults' = nfaults + Cardinality(fails)

extra_entries(fails) ==
    LET src == ImageRef(Top, Top.git_sha)
        dsts == extra_dsts(args, Top)
    IN [i \in 1..Len(dsts) |-> Entry("tag", src, dsts[i], i \notin fails, <<>>)]

ExtraFails ==
    IF args.dry_run THEN {{}}
    ELSE { F \in SUBSET (1..Len(extra_dsts(args, Top))) :
             nfaults + Cardinality(F) <= MaxFaults }

\* ------------------------------------------------------------------ _build

frameVars == <<envVars, fs, args, prev, snapshot, ninv, nedits>>
quiet == <<frameVars, hist>>

SetTop(fr) == stack' = <<fr>> \o Tail(stack)

\* cli.py 46-59: the registry check and the pull of image:git_sha
CheckPublishedTag ==
    /\ At("start")
    /\ LET r == ImageRef(Top, Top.git_sha)
       IN IF Top.registry # DOCKER_REGISTRY
          THEN Return(<<>>, Str(<<>>)) /\ UNCHANGED local
          ELSE IF args.dry_run
          THEN Goto("context") /\ UNCHANGED <<result, log, local>>
          ELSE IF pull_ok(r)
          THEN /\ Goto("existing")
               /\ local' = Put(local, r, remote[r])
               /\ Logged(<< Entry("pull", r, NoRef, TRUE, <<>>) >>)
               /\ UNCHANGED result
          ELSE /\ Goto("context")
               /\ Logged(<< Entry("pull", r, NoRef, FALSE, <<>>) >>)
               /\ UNCHANGED <<result, local>>
    /\ UNCHANGED <<quiet, cwd, remote, nextId, nfaults>>

\* cli.py 63-70: image:git_sha exists; its digest is returned
ReuseGitShaTag ==
    /\ At("existing")
    /\ LET r == ImageRef(Top, Top.git_sha)
       IN \E d \in DigestOutcomes(r) :
            IF d = <<>>
            THEN /\ Raise(<< Entry("digest", r, NoRef, FALSE, <<>>) >>)
                 /\ nfaults' = nfaults + 1
                 /\ UNCHANGED local
            ELSE \E fails \in ExtraFails :
                    /\ _tag_to_extra_tags(fails)
                    /\ Return(<< Entry("digest", r, NoRef, TRUE, d) >>
                              \o extra_entries(fails), Str(d))
    /\ UNCHANGED <<quiet, cwd, remote, nextId>>

\* docker.py 138-145
enter_build_context(image_name) ==
    IF environ[image_name] # <<>> THEN environ[image_name] ELSE cwd

\* cli.py 72-90: build context, .dockerignore, Dockerfile
EnterBuildContext ==
    /\ At("context")
    /\ LET build_context == enter_build_context(Top.image_name)
           dockerfile_path == locate_dockerfile(Top.image_name)
       IN /\ cwd' = build_context
          /\ IF ~isfile(fs, build_context, dockerfile_path)
             THEN Raise(<< Entry("locate", NoRef, NoRef, FALSE, dockerfile_path) >>)
             ELSE /\ SetTop([Top EXCEPT
                       !.pc = "parents",
                       !.build_context = build_context,
                       !.ignored = parse_dockerignore(fs, listdir, dockerignore,
                                                      build_context, build_context),
                       !.parent_images = parent_images(dockerfiles[dockerfile_path],
                                                       build_arg_of(args)),
                       !.i = 1,
                       !.hasher = <<>>,
                       !.parent_digests = <<>>])
                  /\ UNCHANGED result
                  /\ Logged(<< Entry("locate", NoRef, NoRef, TRUE, dockerfile_path) >>)
    /\ UNCHANGED <<quiet, remote, local, nextId, nfaults>>

\* cli.py 93-101: the recursive call for the next parent
ResolveParent ==
    /\ At("parents")
    /\ Top.i <= Len(Top.parent_images)
    /\ LET parent == Top.parent_images[Top.i]
       IN /\ stack' = << Frame(parent.host, parent.name, parent.tag) >> \o stack
          /\ Logged(<< Entry("resolve", parent, NoRef, TRUE, <<>>) >>)
    /\ UNCHANGED <<quiet, cwd, remote, local, nextId, nfaults, result>>

\* cli.py 113-144: the files are absorbed and the hash is finalized
ComputeHash ==
    /\ At("parents")
    /\ Top.i > Len(Top.parent_images)
    /\ LET dockerfile_path == locate_dockerfile(Top.image_name)
           h == files_hash(Top.hasher, fs, listdir, cwd, Top.ignored,
                           srcs_of(Top.image_name, dockerfiles[dockerfile_path]))
       IN /\ SetTop([Top EXCEPT !.pc = "check_hash", !.hasher = h,
                                !.hash_tag = HashTag(h)])
          /\ Logged(<< [Entry("hash", ImageRef(Top, HashTag(h)), NoRef, TRUE, h)
                          EXCEPT !.files = absorbed_files(fs, listdir, cwd, Top.ignored,
                                     srcs_of(Top.image_name, dockerfiles[dockerfile_path]))] >>)
    /\ UNCHANGED <<quiet, cwd, remote, local, nextId, nfaults, result>>

\* cli.py 152-155: does image:hash-{hash} exist
CheckContentTag ==
    /\ At("check_hash")
    /\ LET r == ImageRef(Top, Top.hash_tag)
       IN IF args.dry_run
          THEN Goto("build") /\ UNCHANGED <<log, local>>
          ELSE IF pull_ok(r)
          THEN /\ GotoVia("tag_final", "content")
               /\ local' = Put(local, r, remote[r])
               /\ Logged(<< Entry("pull", r, NoRef, TRUE, <<>>) >>)
          ELSE /\ Goto("legacy")
               /\ Logged(<< Entry("pull", r, NoRef, FALSE, <<>>) >>)
               /\ UNCHANGED local
    /\ UNCHANGED <<quiet, cwd, remote, nextId, nfaults, result>>

old_hash_image(fr) == Ref(LegacyHost, fr.image_name, fr.hash_tag)

\* cli.py 161: the same tag at the old registry host
CheckLegacyTag ==
    /\ At("legacy")
    /\ LET r == old_hash_image(Top)
       IN IF pull_ok(r)
          THEN /\ GotoVia("tag_old", "legacy")
               /\ local' = Put(local, r, remote[r])
               /\ Logged(<< Entry("pull", r, NoRef, TRUE, <<>>) >>)
          ELSE /\ Goto("build")
               /\ Logged(<< Entry("pull", r, NoRef, FALSE, <<>>) >>)
               /\ UNCHANGED local
    /\ UNCHANGED <<quiet, cwd, remote, nextId, nfaults, result>>

\* cli.py 164-166
TagOldHashImage ==
    /\ At("tag_old")
    /\ LET src == old_hash_image(Top)
           dst == ImageRef(Top, Top.hash_tag)
       IN \E ok \in Outcomes :
            /\ Count(ok)
            /\ IF ok
               THEN /\ Goto("push_old")
                    /\ local' = tagged(local, src, dst)
                    /\ Logged(<< Entry("tag", src, dst, TRUE, <<>>) >>)
                    /\ UNCHANGED result
               ELSE /\ Return(<< Entry("tag", src, dst, FALSE, <<>>) >>, None)
                    /\ UNCHANGED local
    /\ UNCHANGED <<quiet, cwd, remote, nextId>>

\* a docker push that reports success and uploads nothing
pushed_nothing(store, r) == store

\* docker push, when it runs and succeeds
pushed(store, r) == IF r \in DOMAIN local THEN Put(store, r, local[r]) ELSE store

Push(pc, next) ==
    /\ At(pc)
    /\ LET r == ImageRef(Top, IF pc = "push_final" THEN Top.git_sha ELSE Top.hash_tag)
       IN \E ok \in Outcomes :
            /\ Count(ok)
            /\ hist' = [hist EXCEPT !.push_failed = @ \/ ~ok]
            /\ IF ok
               THEN /\ Goto(next)
                    /\ remote' = IF args.dry_run THEN remote ELSE pushed(remote, r)
                    /\ Logged(<< Entry("push", r, NoRef, TRUE, <<>>) >>)
                    /\ UNCHANGED result
               ELSE /\ Return(<< Entry("push", r, NoRef, FALSE, <<>>) >>, None)
                    /\ UNCHANGED remote
    /\ UNCHANGED <<frameVars, cwd, local, nextId>>

\* cli.py 167-169
PushOldHashImage == Push("push_old", "tag_final")

\* the digests docker build may give the image it builds: a new one, or
\* that of an image of this name the daemon already holds (layer cache)
BuildDigests(fr) ==
    {Digest(nextId + 1)}
    \cup { local[r] : r \in { x \in DOMAIN local :
                               x.host = fr.registry /\ x.name = fr.image_name } }

\* cli.py 176-178 and build_with_raw_command (cli.py 203-215)
Build ==
    /\ At("build")
    /\ LET t == ImageRef(Top, Top.hash_tag)
           id == ImageRef(Top, Top.git_sha)
       IN \E ok \in Outcomes :
            /\ Count(ok)
            /\ hist' = IF args.dry_run THEN hist
                       ELSE [hist EXCEPT !.built = @ \cup {t},
                                         !.twice = IF t \in hist.built
                                                   THEN @ \cup {t} ELSE @,
                                         !.build_failed = @ \/ ~ok]
            /\ IF ok
               THEN /\ GotoVia("push_hash", "build")
                    /\ IF args.dry_run
                       THEN UNCHANGED <<local, nextId>>
                       ELSE \E d \in BuildDigests(Top) :
                              /\ local' = Put(local, t, d)
                              /\ nextId' = IF d = Digest(nextId + 1)
                                           THEN nextId + 1 ELSE nextId
                    /\ Logged(<< Entry("build", t, id, TRUE, <<>>) >>)
                    /\ UNCHANGED result
               ELSE /\ Return(<< Entry("build", t, id, FALSE, <<>>) >>, None)
                    /\ UNCHANGED <<local, nextId>>
    /\ UNCHANGED <<frameVars, cwd, remote>>

\* cli.py 179-182
PushHashTag == Push("push_hash", "tag_final")

\* a docker tag that is executed even when DRY_RUN is set
TagFinalExecuted ==
    /\ At("tag_final")
    /\ LET src == ImageRef(Top, Top.hash_tag)
           dst == ImageRef(Top, Top.git_sha)
       IN \E ok \in Outcomes :
            /\ Count(ok)
            /\ IF ok
               THEN /\ Goto("extra")
                    /\ local' = tagged(local, src, dst)
                    /\ Logged(<< Entry("tag", src, dst, TRUE, <<>>) >>)
                    /\ UNCHANGED result
               ELSE /\ Return(<< Entry("tag", src, dst, FALSE, <<>>) >>, None)
                    /\ UNCHANGED local
    /\ UNCHANGED <<quiet, cwd, remote, nextId>>

\* cli.py 185-187
TagFinal ==
    /\ At("tag_final")
    /\ LET src == ImageRef(Top, Top.hash_tag)
           dst == ImageRef(Top, Top.git_sha)
       IN \E ok \in Outcomes :
            /\ Count(ok)
            /\ IF ok
               THEN /\ Goto("extra")
                    /\ local' = IF args.dry_run THEN local
                                ELSE tagged(local, src, dst)
                    /\ Logged(<< Entry("tag", src, dst, TRUE, <<>>) >>)
                    /\ UNCHANGED result
               ELSE /\ Return(<< Entry("tag", src, dst, FALSE, <<>>) >>, None)
                    /\ UNCHANGED local
    /\ UNCHANGED <<quiet, cwd, remote, nextId>>

\* cli.py 188
TagExtra ==
    /\ At("extra")
    /\ \E fails \in ExtraFails :
          /\ _tag_to_extra_tags(fails)
          /\ Logged(extra_entries(fails))
    /\ Goto("push_final")
    /\ UNCHANGED <<quiet, cwd, remote, nextId, result>>

\* cli.py 189-191
PushFinal == Push("push_final", "digest")

\* cli.py 192-198
GetDigest ==
    /\ At("digest")
    /\ LET r == ImageRef(Top, Top.git_sha)
       IN \E d \in DigestOutcomes(r) :
            /\ nfaults' = nfaults + (IF d = <<>> /\ r \in DOMAIN remote THEN 1 ELSE 0)
            /\ IF d = <<>>
               THEN Return(<< Entry("digest", r, NoRef, FALSE, <<>>) >>, None)
               ELSE Return(<< Entry("digest", r, NoRef, TRUE, d) >>, Str(d))
    /\ UNCHANGED <<quiet, cwd, remote, local, nextId>>

Next ==
    \/ StartInvocation
    \/ EditFile
    \/ CheckPublishedTag
    \/ ReuseGitShaTag
    \/ EnterBuildContext
    \/ ResolveParent
    \/ ComputeHash
    \/ CheckContentTag
    \/ CheckLegacyTag
    \/ TagOldHashImage
    \/ PushOldHashImage
    \/ Build
    \/ PushHashTag
    \/ TagFinal
    \/ TagExtra
    \/ PushFinal
    \/ GetDigest

Spec == Init /\ [][Next]_vars

\* ------------------------------------------------- two invocations compared

Finished == result.status = "exit" \/ result.status = "exception"

\* the finished invocation repeats the previous one: same image, same
\* registry, same version tag, both for real
Repeated ==
    /\ Finished
    /\ prev.valid
    /\ ~args.dry_run /\ ~prev.args.dry_run
    /\ args.name = prev.args.name
    /\ args.registry = prev.args.registry
    /\ args.git_sha_tag = prev.args.git_sha_tag

\* the previous invocation met no failing command and returned a digest
PrevSucceeded == prev.clean /\ prev.result.status = "exit" /\ prev.result.code = 0

digest_ok(l) == \A i \in 1..Len(l) : l[i].op = "digest" => l[i].ok

NoBuildAtAll == \A n \in Names : count(log, "build", n) = 0

SameDigest ==
    /\ result.status = "exit" /\ result.code = 0
    /\ result.val = prev.result.val

\* C1 as stated: a repeated invocation on unchanged files, after a first one
\* in which every external call succeeded, returns the digest of the first
\* and builds nothing.
C1_Original ==
    (Repeated /\ PrevSucceeded /\ prev.fs = snapshot)
        => (SameDigest /\ NoBuildAtAll)

\* C1 amended: the same, provided the digest lookup of the second invocation
\* yields a digest as well; without it the second invocation raises.
C1_CacheIdempotence ==
    (Repeated /\ PrevSucceeded /\ prev.fs = snapshot /\ digest_ok(log))
        => (SameDigest /\ NoBuildAtAll)

\* a repeated invocation that returned the digest of the first
C1_Witness ==
    /\ Repeated /\ PrevSucceeded /\ prev.fs = snapshot /\ digest_ok(log)
    /\ prev.builds[args.name] = 1
    /\ SameDigest

\* -------------------------------------------------- one resolution followed

\* the frame k levels below the top, its references and its part of the log
depth_of(k) == Len(stack) - k + 1
version_ref(k) == ImageRef(stack[k], stack[k].git_sha)
content_ref(k) == ImageRef(stack[k], stack[k].hash_tag)
builds_since_hash(k) ==
    LET is == { i \in 1..Len(log) : log[i].op = "hash" /\ log[i].depth = depth_of(k) }
        h == CHOOSE i \in is : \A j \in is : j <= i
    IN IF is = {} THEN {}
       ELSE { j \in (h + 1)..Len(log) :
                log[j].op = "build" /\ log[j].depth = depth_of(k) }

\* the step that finds the content tag goes straight to tagging
ContentTagFound ==
    (At("check_hash") /\ ~args.dry_run
        /\ ImageRef(Top, Top.hash_tag) \in DOMAIN remote)
    => /\ Len(stack') = Len(stack)
       /\ stack'[1].pc = "tag_final" /\ stack'[1].via = "content"
       /\ remote' = remote

\* a resolution that found its content tag never builds, and once it has
\* pushed the version tag both tags name one artifact
ContentTagKept ==
    \A k \in 1..Len(stack) :
       stack[k].via = "content" =>
          /\ stack[k].pc \in {"tag_final", "extra", "push_final", "digest"}
          /\ builds_since_hash(k) = {}
          /\ content_ref(k) \in DOMAIN remote
          /\ stack[k].pc = "digest" =>
                /\ version_ref(k) \in DOMAIN remote
                /\ remote[version_ref(k)] = remote[content_ref(k)]

\* the digest such a resolution returns is the one of the content tag
ContentTagReturned ==
    (At("digest") /\ Top.via = "content" /\ log'[Len(log')].op = "return"
        /\ log'[Len(log')].ok)
    => log'[Len(log')].val = remote[ImageRef(Top, Top.hash_tag)]

\* C2: in non-dry-run mode, when the version tag is missing but the content
\* tag of the computed digest is in the cache registry, the resolution calls
\* no Build for the image and the version tag it publishes (and the digest
\* it returns) is the artifact of the content tag.
C2_ContentTagReuse ==
    /\ [][ContentTagFound]_vars
    /\ [](ContentTagKept)
    /\ [][ContentTagReturned]_vars

\* an invocation that was served from the content tag and returned its digest
C2_Witness ==
    /\ result.status = "exit" /\ result.code = 0 /\ ~args.dry_run
    /\ last_hash(log, args.name) # <<>>
    /\ \E i \in 1..Len(log) :
          /\ log[i].op = "pull" /\ log[i].ok /\ log[i].name = args.name
          /\ log[i].a.tag = HashTag(last_hash(log, args.name)[1])
          /\ log[i].a.host = DOCKER_REGISTRY
    /\ count(log, "build", args.name) = 0
    /\ result.val = remote[Ref(DOCKER_REGISTRY, args.name,
                              HashTag(last_hash(log, args.name)[1]))]

\* ------------------------------------------------ a file altered in between

\* the files that differ between the previous invocation and this one
Edited == { k \in DOMAIN snapshot : prev.fs[k] # snapshot[k] }
OneByteEdited ==
    /\ Cardinality(Edited) = 1
    /\ \A k \in Edited :
          /\ Len(prev.fs[k]) = Len(snapshot[k])
          /\ Cardinality({ i \in 1..Len(snapshot[k]) :
                             prev.fs[k][i] # snapshot[k][i] }) = 1

\* the content tag computed for the image was found in neither registry
missed(l, name) ==
    LET ps == { i \in 1..Len(l) : l[i].op = "pull" /\ l[i].name = name
                                   /\ l[i].a.tag.kind = "hash" }
    IN /\ \E i \in ps : l[i].a.host = LegacyHost
       /\ \A i \in ps : ~l[i].ok

AfterEdit ==
    /\ Finished /\ prev.valid
    /\ ~args.dry_run /\ ~prev.args.dry_run
    /\ PrevSucceeded
    /\ OneByteEdited

\* C3 as stated: after the image was built and published, one byte altered
\* in a file absorbed into its hash changes its content tag, and invoking
\* the orchestrator for it again calls Build exactly once for it and not at
\* all for an image whose hash is the one of the previous invocation.
C3_Original ==
    \A n \in Names :
       (AfterEdit /\ args.name = n /\ prev.args.name = n
          /\ args.registry = DOCKER_REGISTRY
          /\ Edited \subseteq Range(prev.absorbed[n]))
       => /\ last_hash(log, n) # <<>>
          /\ last_hash(log, n) # prev.hashes[n]
          /\ count(log, "build", n) = 1
          /\ \A m \in Names \ {n} :
                last_hash(log, m) = prev.hashes[m] => count(log, "build", m) = 0

\* C3 amended: the altered byte changes the content tag wherever the hash
\* is computed again over the same files; Build is called exactly once for
\* an image whose computed content tag is found in neither registry, and
\* not at all for an image whose content tag is unchanged or whose hash is
\* not computed (its version tag, or the one of an image above it, exists).
C3_ContentChangeRebuilds ==
    \A n \in Names :
       AfterEdit =>
          LET h1 == prev.hashes[n]
              h2 == last_hash(log, n)
          IN /\ (h1 # <<>> /\ h2 # <<>>
                   /\ prev.absorbed[n] = last_absorbed(log, n)
                   /\ Edited \subseteq Range(prev.absorbed[n])) => h2 # h1
             /\ (h2 # <<>> /\ missed(log, n)) => count(log, "build", n) = 1
             /\ (h2 # <<>> /\ h2 = h1) => count(log, "build", n) = 0
             /\ h2 = <<>> => count(log, "build", n) = 0

\* a second invocation that found the altered file, computed another content
\* tag and called Build once
C3_Witness ==
    \E n \in Names :
       /\ AfterEdit /\ args.name = n /\ prev.args.name = n
       /\ Edited \subseteq Range(prev.absorbed[n])
       /\ prev.hashes[n] # <<>> /\ last_hash(log, n) # <<>>
       /\ last_hash(log, n) # prev.hashes[n]
       /\ missed(log, n)
       /\ count(log, "build", n) = 1
       /\ result.status = "exit" /\ result.code = 0

\* ------------------------------------------------ a parent altered in between

\* app was built twice, both times with success, and the one byte altered
\* in between is in a file hashed for base and in none hashed for app
BaseEdited ==
    /\ AfterEdit
    /\ args.name = "app" /\ prev.args.name = "app"
    /\ args.registry = DOCKER_REGISTRY
    /\ result.status = "exit" /\ result.code = 0 /\ clean(log)
    /\ prev.absorbed["base"] # <<>>
    /\ Edited \subseteq Range(prev.absorbed["base"])
    /\ Edited \cap Range(prev.absorbed["app"]) = {}

\* C4 as stated: when a hashed file of the parent base changes between two
\* builds of app and no hashed file of app does, the second build calls
\* Build exactly once for base and exactly once for app.
C4_Original ==
    BaseEdited => /\ count(log, "build", "base") = 1
                  /\ count(log, "build", "app") = 1

\* C4 amended: that holds when base is resolved as far as its hash (neither
\* the version tag of app nor the tag app names for base exists yet): the
\* content tag of base changes, base is built once if that tag is found in
\* neither registry, the content tag of app changes exactly when the digest
\* returned for base does, and app is built once if its content tag is found
\* in neither registry and not at all otherwise.  When base is not resolved
\* that far, base is not built.
C4_ParentChangePropagates ==
    BaseEdited =>
       LET hb == last_hash(log, "base")
       IN /\ hb # <<>> =>
                /\ hb # prev.hashes["base"]
                /\ missed(log, "base") => count(log, "build", "base") = 1
                /\ (last_hash(log, "app") # prev.hashes["app"])
                     <=> (last_digest(log, "base") # prev.digests["base"])
          /\ hb = <<>> => count(log, "build", "base") = 0
          /\ count(log, "build", "app") = IF missed(log, "app") THEN 1 ELSE 0

\* the second build of app rebuilt base and, on its new digest, app
C4_Witness ==
    /\ BaseEdited
    /\ last_hash(log, "base") # <<>>
    /\ last_digest(log, "base") # prev.digests["base"]
    /\ count(log, "build", "base") = 1
    /\ count(log, "build", "app") = 1

\* --------------------------------------------- the published version tag

\* what one step appended to the log
logged_by_step == SubSeq(log', Len(log) + 1, Len(log'))

\* the version tag of the resolution at the top is in the cache registry
PublishedTagExists ==
    /\ At("start") /\ ~args.dry_run
    /\ Top.registry = DOCKER_REGISTRY
    /\ ImageRef(Top, Top.git_sha) \in DOMAIN remote

\* the test of the version tag then leads to the reuse of it and to nothing else
PublishedTagFound ==
    PublishedTagExists =>
       /\ Len(stack') = Len(stack) /\ stack'[1].pc = "existing"
       /\ Len(logged_by_step) = 1
       /\ logged_by_step[1].op = "pull" /\ logged_by_step[1].ok
       /\ remote' = remote /\ cwd' = cwd /\ hist' = hist

\* the reuse looks the digest up, tags locally and leaves the frame: no
\* manifest, no parent, no hash, no build, no push
PublishedTagOnly ==
    At("existing") =>
       /\ \A i \in 1..Len(logged_by_step) :
             logged_by_step[i].op \in {"digest", "tag", "return", "raise"}
       /\ Len(stack') < Len(stack)
       /\ remote' = remote /\ cwd' = cwd /\ hist' = hist /\ nextId' = nextId

\* the reuse returns the digest of the version tag
PublishedTagReturned ==
    At("existing") =>
       \E i \in 1..Len(logged_by_step) :
          /\ logged_by_step[i].op = "return" /\ logged_by_step[i].ok
          /\ logged_by_step[i].val = remote[ImageRef(Top, Top.git_sha)]

\* or raises, and only when the digest lookup yielded nothing
PublishedTagRaised ==
    At("existing") =>
       /\ stack' = <<>> /\ result'.status = "exception"
       /\ logged_by_step[1].op = "digest" /\ ~logged_by_step[1].ok

\* C5 as stated: in non-dry-run mode a resolution whose version tag exists
\* in the cache registry returns the digest of that tag without locating a
\* manifest, resolving parents, hashing, building or pushing.
C5_Original ==
    [][PublishedTagFound /\ PublishedTagOnly /\ PublishedTagReturned]_vars

\* C5 amended: such a resolution locates no manifest, resolves no parent,
\* hashes, builds and pushes nothing, and either returns the digest of the
\* version tag or, when the digest lookup yields none, raises.
C5_PublishedTagShortCircuit ==
    [][/\ PublishedTagFound
       /\ PublishedTagOnly
       /\ PublishedTagReturned \/ PublishedTagRaised]_vars

\* a parent whose version tag existed gave its digest to the image above it
C5_Witness ==
    \E i \in 1..Len(log) :
       /\ log[i].op = "pull" /\ log[i].ok /\ log[i].a.tag.kind # "hash"
       /\ log[i].depth = 2
       /\ i + 2 <= Len(log)
       /\ log[i + 1].op = "digest" /\ log[i + 1].ok
       /\ \E j \in (i + 2)..Len(log) :
             /\ log[j].op = "return" /\ log[j].depth = 2
             /\ log[j].val = log[i + 1].val
             /\ \A m \in (i + 1)..(j - 1) : log[m].op \in {"digest", "tag"}

\* ------------------------------------------------------- builds over time

\* C6 as stated: over non-dry-run invocations in which every push succeeds,
\* Build runs at most once for an image and its content (parent digests and
\* hashed files, which the content tag names).
C6_Original ==
    ~hist.push_failed => hist.twice = {}

\* C6 amended: over invocations in which every Build and every push
\* succeeds, Build runs at most once for an image and its content.
C6_BuildAtMostOnce ==
    (~hist.push_failed /\ ~hist.build_failed) => hist.twice = {}

\* two invocations met the same content and only the first of them built it
C6_Witness ==
    /\ ~hist.push_failed /\ ~hist.build_failed
    /\ Finished /\ prev.valid /\ ~args.dry_run /\ ~prev.args.dry_run
    /\ args.git_sha_tag # prev.args.git_sha_tag
    /\ \E n \in Names :
          /\ prev.builds[n] = 1
          /\ last_hash(log, n) # <<>>
          /\ last_hash(log, n) = prev.hashes[n]
          /\ Ref(DOCKER_REGISTRY, n, HashTag(last_hash(log, n)[1])) \in hist.built
          /\ count(log, "build", n) = 0

\* ------------------------------------------- one parent named several times

\* the Build calls logged for one image identity (registry/name:tag)
builds_of(id) == { i \in 1..Len(log) : log[i].op = "build" /\ log[i].b = id }

\* every resolution of a parent after the first one of the same identity
\* finds the version tag and goes on to its digest
LaterResolutionsReuse ==
    \A i, j \in 1..Len(log) :
       (i < j /\ log[i].op = "resolve" /\ log[j].op = "resolve"
          /\ log[i].a = log[j].a /\ log[j].a.host = DOCKER_REGISTRY)
       => /\ j + 1 <= Len(log) =>
                /\ log[j + 1].op = "pull" /\ log[j + 1].ok
                /\ log[j + 1].a = log[j].a
          /\ j + 2 <= Len(log) => log[j + 2].op = "digest"

BuiltOncePerIdentity ==
    \A i \in 1..Len(log) :
       log[i].op = "build" => Cardinality(builds_of(log[i].b)) <= 1

\* C7 as stated: within one invocation an image identity named as a parent
\* several times is built at most once, and every later resolution of it
\* ends in the reuse of the published version tag.
C7_Original ==
    BuiltOncePerIdentity /\ LaterResolutionsReuse

\* C7 amended: so it is within one invocation that is not a dry run.
C7_SharedParentBuiltOnce ==
    ~args.dry_run => (BuiltOncePerIdentity /\ LaterResolutionsReuse)

\* base is named twice by app: built at its first resolution, reused at the
\* second
C7_Witness ==
    /\ ~args.dry_run /\ Finished /\ result.code = 0
    /\ Cardinality({ i \in 1..Len(log) :
                       log[i].op = "resolve" /\ log[i].a.name = "base" }) = 2
    /\ count(log, "build", "base") = 1

\* ----------------------------------------------------- the hash on its own

\* A second specification for the hash alone: one resolution of app, in a
\* context of five files and two directories, under every listing order the
\* file system may use, with parents whose version tags are published.

MaxHashes == 2

Perms(S) == { s \in [1..Cardinality(S) -> S] : Range(s) = S }

HashFs ==
    (<<SEP, 65>> :> <<1>>)
    @@ (Join(ArgsPath, <<97>>) :> <<2>>)
    @@ (Join(ArgsPath, <<100, SEP, 97>>) :> <<3>>)
    @@ (Join(ArgsPath, <<100, SEP, 98>>) :> <<4>>)
    @@ (Join(ArgsPath, <<100, SEP, 99>>) :> <<5>>)
    @@ (Join(ArgsPath, <<100, 45>>) :> <<6>>)

HashIgnore == (ArgsPath :> << <<100, SEP, 99>> >>)

\* the orders in which the entries of the context may be listed
HashListings ==
    { << <<SEP, 65>>, ArgsPath >> \o top \o << Join(ArgsPath, <<100, SEP, 99>>) >> \o sub :
        top \in Perms({ Join(ArgsPath, <<97>>), Join(ArgsPath, <<100>>),
                        Join(ArgsPath, <<100, 45>>) }),
        sub \in Perms({ Join(ArgsPath, <<100, SEP, 97>>),
                        Join(ArgsPath, <<100, SEP, 98>>) }) }

\* COPY and ADD sources of the manifest hashed
HashSrcs ==
    { [copied_srcs |-> << <<STAR>> >>, added_srcs |-> <<>>],
      [copied_srcs |-> << <<100>> >>, added_srcs |-> << <<97>> >>],
      [copied_srcs |-> << <<97>>, <<100, STAR>> >>, added_srcs |-> <<>>],
      [copied_srcs |-> << <<100, SEP, STAR>> >>, added_srcs |-> << <<100, 45>> >>] }

ParentOne == Ref(CiRegistry, "base", Lit(1))
ParentTwo == Ref(CiRegistry, "base", Lit(2))
ParentElsewhere == Ref("", "python", Lit(3))

HashParents ==
    { <<>>, <<ParentOne>>, <<ParentOne, ParentTwo>>, <<ParentTwo, ParentOne>>,
      <<ParentElsewhere, ParentOne>>, <<ParentOne, ParentElsewhere>>,
      <<ParentOne, ParentOne>> }

InitHash ==
    /\ DOCKER_REGISTRY = CiRegistry
    /\ \E ps \in HashParents, ss \in HashSrcs :
          dockerfiles = (DockerfilePath["app"] :>
                            [parent_images |-> ps, copied_srcs |-> ss.copied_srcs,
                             added_srcs |-> ss.added_srcs])
                        @@ (DockerfilePath["base"] :> BaseDockerfile)
    /\ environ = [n \in {"app", "base", "ghost"} |-> <<>>]
    /\ dockerignore = HashIgnore
    /\ fs = HashFs
    /\ listdir \in HashListings
    /\ cwd = ArgsPath
    /\ remote = Put(Put(EmptyStore, ParentOne, Digest(1)), ParentTwo, Digest(2))
    /\ local = EmptyStore
    /\ nextId = 2
    /\ args = [registry |-> CiRegistry, name |-> "app", git_sha |-> 1,
               git_sha_tag |-> GitShaTag(1), dry_run |-> FALSE,
               build_arg |-> ("REGISTRY" :> CiRegistry),
               extra_tag |-> <<>>, extra_name |-> <<>>, path |-> ArgsPath]
    /\ stack = << Frame(CiRegistry, "app", GitShaTag(1)) >>
    /\ result = Running
    /\ log = <<>>
    /\ prev = NoPrev
    /\ snapshot = HashFs
    /\ hist = NoHist
    /\ ninv = 1 /\ nfaults = MaxFaults /\ nedits = MaxEdits

hashes_logged == { i \in 1..Len(log) : log[i].op = "hash" }

\* the file system lists its entries in another order and the files of the
\* same snapshot are hashed once more, on the same parent digests
Relist ==
    /\ At("check_hash")
    /\ Cardinality(hashes_logged) < MaxHashes
    /\ \E ld \in HashListings :
          /\ ld # listdir
          /\ listdir' = ld
    /\ SetTop([Top EXCEPT !.pc = "parents",
                          !.hasher = Concat(Top.parent_digests),
                          !.hash_tag = HashTag(<<>>)])
    /\ UNCHANGED <<DOCKER_REGISTRY, dockerfiles, environ, dockerignore, fs, cwd,
                   remote, local, nextId, args, result, log, prev, snapshot,
                   hist, ninv, nfaults, nedits>>

NextHash ==
    \/ CheckPublishedTag
    \/ ReuseGitShaTag
    \/ EnterBuildContext
    \/ ResolveParent
    \/ ComputeHash
    \/ Relist

SpecHash == InitHash /\ [][NextHash]_vars

\* the manifest sources hashed for the resolution at the top
top_srcs ==
    srcs_of(Top.image_name, dockerfiles[locate_dockerfile(Top.image_name)])

\* the hash does not depend on the order of the listing: for one snapshot
\* every computation under another listing gives the same digest
ListingOrderIrrelevant ==
    \A i, j \in hashes_logged : log[i].val = log[j].val

\* the hash was computed under two different listings, over several files
ListingOrderVaried ==
    /\ Cardinality(hashes_logged) = 2
    /\ At("check_hash")
    /\ Len(log[Len(log)].files) >= 4
    /\ \E k \in 1..Len(top_srcs) :
          glob_glob(fs, listdir, cwd, top_srcs[k])
             # sorted(glob_glob(fs, listdir, cwd, top_srcs[k]))

\* the images the manifest of an image names as parents
parents_of(name) ==
    { dockerfiles[locate_dockerfile(name)].parent_images[i].name :
        i \in 1..Len(dockerfiles[locate_dockerfile(name)].parent_images) }

\* C8: for a fixed manifest, fixed build arguments, fixed parent digests and
\* a fixed file-system snapshot, two computations of the content hash of an
\* image give the same digest.  Here the two computations are the ones of
\* two invocations with the same arguments on the same files.
C8_HashDeterminism ==
    \A n \in {"app", "base"} :
       (/\ Finished /\ prev.valid
        /\ prev.args = args
        /\ prev.fs = snapshot
        /\ prev.hashes[n] # <<>> /\ last_hash(log, n) # <<>>
        /\ \A m \in parents_of(n) \cap Names :
              prev.digests[m] = last_digest(log, m))
       => last_hash(log, n) = prev.hashes[n]

\* ------------------------------------------------ what is absorbed, in order

\* a set of paths as the sequence in increasing order
in_order(S) ==
    [i \in 1..Cardinality(S) |->
        CHOOSE x \in S : Cardinality({ y \in S : LexLess(y, x) }) = i - 1]

\* the entries a source pattern names, and a path as the pattern names it
named_by(src) ==
    { q \in Entries(fs) :
        IF IsAbs(src) THEN Match(src, q)
        ELSE Under(cwd, q) /\ Match(src, Rel(cwd, q)) }
as_named(src, q) == IF IsAbs(src) THEN q ELSE Rel(cwd, q)

\* the regular files of one source pattern that are not ignored: its
\* entries in increasing order, a directory replaced by all below it, in
\* increasing order
files_of_src(src) ==
    LET es == in_order(named_by(src))
        kept(q) == q \in DOMAIN fs /\ as_named(src, q) \notin Top.ignored
    IN Concat([i \in 1..Len(es) |->
          IF \E k \in DOMAIN fs : Under(es[i], k)
          THEN SelectSeq(in_order({ q \in Entries(fs) : Under(es[i], q) }), kept)
          ELSE IF kept(es[i]) THEN <<es[i]>> ELSE <<>>])

files_in_manifest_order ==
    Concat([k \in 1..Len(top_srcs) |-> files_of_src(top_srcs[k])])

\* the digest each parent of the manifest returned, in manifest order
digests_in_manifest_order ==
    [i \in 1..Len(Top.parent_images) |->
        IF Top.parent_images[i].host = DOCKER_REGISTRY
        THEN remote[Top.parent_images[i]] ELSE <<>>]

\* the hash is the parents' digests in manifest order, then the files
ParentsThenFiles ==
    LET F == log[Len(log)].files
    IN /\ log[Len(log)].op = "hash"
       /\ Top.parent_digests = digests_in_manifest_order
       /\ Top.hasher = Concat(Top.parent_digests)
                         \o Concat([i \in 1..Len(F) |-> fs[F[i]]])
       /\ \A i \in 1..Len(F) : F[i] \in DOMAIN fs

\* C9 as stated: the hasher absorbs the parent digests in manifest order,
\* then every file not ignored, in one order sorted by resolved path over
\* all source patterns together.
C9_Original ==
    At("check_hash") =>
       /\ ParentsThenFiles
       /\ \A i, j \in 1..Len(log[Len(log)].files) :
             i < j => ~LexLess(log[Len(log)].files[j], log[Len(log)].files[i])

\* C9 amended: the parent digests in manifest order, then the files source
\* pattern by source pattern in manifest order (manifest path, COPY sources,
\* ADD sources); within one pattern the matches in sorted order, a directory
\* match replaced by everything below it in sorted order; ignored paths and
\* paths that are no regular file are skipped.
C9_AbsorptionOrder ==
    At("check_hash") =>
       /\ ParentsThenFiles
       /\ log[Len(log)].files = files_in_manifest_order

\* two parents and files of a directory and beside it were absorbed, and
\* the files are not in one sorted order
C9_Witness ==
    /\ At("check_hash")
    /\ Len(Top.parent_digests) = 2
    /\ Top.parent_digests[1] # Top.parent_digests[2]
    /\ Len(log[Len(log)].files) >= 4
    /\ \E i \in 1..(Len(log[Len(log)].files) - 1) :
          LexLess(log[Len(log)].files[i + 1], log[Len(log)].files[i])

\* ------------------------------------------------- the order of the parents

\* the hash of the same files on the two parent digests in the other order
hash_swapped ==
    files_hash(hasher_update(hasher_update(<<>>, Top.parent_digests[2]),
                             Top.parent_digests[1]),
               fs, listdir, cwd, Top.ignored, top_srcs)

TwoParentsHashed ==
    /\ At("check_hash") /\ Len(Top.parent_digests) = 2
    /\ Top.parent_digests[1] # Top.parent_digests[2]

\* C10 as stated: for any two distinct parent digests, the empty value of a
\* parent outside the cache registry included, the order [A, B] gives
\* another hash than the order [B, A].
C10_Original ==
    TwoParentsHashed => Top.hasher # hash_swapped

\* C10 amended: so it is for two distinct digests that are both not empty;
\* when one of the two is the empty value both orders give the same hash.
C10_OrderSensitivity ==
    TwoParentsHashed =>
       IF Top.parent_digests[1] # <<>> /\ Top.parent_digests[2] # <<>>
       THEN Top.hasher # hash_swapped
       ELSE Top.hasher = hash_swapped

\* two published parents with different digests were absorbed
C10_Witness ==
    /\ TwoParentsHashed
    /\ Top.parent_digests[1] # <<>> /\ Top.parent_digests[2] # <<>>
    /\ Top.hasher # hash_swapped

\* ------------------------------------------------ the ignore file on its own

\* A third specification for parse_dockerignore alone: one resolution of an
\* image without parents, in a context whose .dockerignore holds any list of
\* up to MaxRules lines (or is missing), over files of which one has a name
\* that begins with '!'.

MaxRules == 3

IgnoreFs ==
    (<<SEP, 65>> :> <<1>>)
    @@ (Join(ArgsPath, <<97>>) :> <<2>>)
    @@ (Join(ArgsPath, <<BANG, 97>>) :> <<3>>)
    @@ (Join(ArgsPath, <<100, SEP, 97>>) :> <<4>>)
    @@ (Join(ArgsPath, <<100, SEP, 98>>) :> <<5>>)

\* the lines a .dockerignore is made of here: a, !a, d, !d, #a, *
IgnoreLines ==
    { <<97>>, <<BANG, 97>>, <<100>>, <<BANG, 100>>, <<HASHMARK, 97>>, <<STAR>> }

IgnoreFiles ==
    UNION { [1..n -> IgnoreLines] : n \in 0..MaxRules }

InitIgnoreSpec ==
    /\ DOCKER_REGISTRY = CiRegistry
    /\ dockerfiles = (DockerfilePath["app"] :>
                         [parent_images |-> <<>>, copied_srcs |-> << <<STAR>> >>,
                          added_srcs |-> <<>>])
                     @@ (DockerfilePath["base"] :> BaseDockerfile)
    /\ environ = [n \in {"app", "base", "ghost"} |-> <<>>]
    /\ \/ \E lines \in IgnoreFiles : dockerignore = (ArgsPath :> lines)
       \/ dockerignore = [p \in {} |-> <<>>]
    /\ fs = IgnoreFs
    /\ listdir = sorted(SeqOf(Entries(IgnoreFs)))
    /\ cwd = ArgsPath
    /\ remote = EmptyStore
    /\ local = EmptyStore
    /\ nextId = 0
    /\ args = [registry |-> CiRegistry, name |-> "app", git_sha |-> 1,
               git_sha_tag |-> GitShaTag(1), dry_run |-> FALSE,
               build_arg |-> ("REGISTRY" :> CiRegistry),
               extra_tag |-> <<>>, extra_name |-> <<>>, path |-> ArgsPath]
    /\ stack = << Frame(CiRegistry, "app", GitShaTag(1)) >>
    /\ result = Running
    /\ log = <<>>
    /\ prev = NoPrev
    /\ snapshot = IgnoreFs
    /\ hist = NoHist
    /\ ninv = 1 /\ nfaults = MaxFaults /\ nedits = MaxEdits

NextIgnore ==
    \/ CheckPublishedTag
    \/ EnterBuildContext
    \/ ComputeHash

SpecIgnore == InitIgnoreSpec /\ [][NextIgnore]_vars

\* the fold of the rules as the ignore file is meant to be read: a comment
\* changes nothing, `!pattern` takes the expansion of pattern away and adds
\* nothing, any other line adds its expansion
RECURSIVE rule_fold(_, _)
rule_fold(lines, files) ==
    IF lines = <<>> THEN files
    ELSE LET line == Head(lines)
             step == IF line # <<>> /\ Head(line) = HASHMARK THEN files
                     ELSE IF line # <<>> /\ Head(line) = BANG
                          THEN files \ _glob(fs, listdir, cwd, Tail(line))
                          ELSE files \cup _glob(fs, listdir, cwd, line)
         IN rule_fold(Tail(lines), step)

\* the ignored set of the resolution at the top has been computed
IgnoredComputed == At("parents") \/ At("check_hash")

\* C11: the ignored set returned by parse_dockerignore is the left-to-right
\* fold of the rules in which a negated rule only removes the expansion of
\* its pattern and adds nothing and any other rule only adds its expansion;
\* comments contribute nothing and a missing ignore file gives the empty set.
C11_IgnoreRuleSemantics ==
    IgnoredComputed =>
       Top.ignored = IF Top.build_context \in DOMAIN dockerignore
                     THEN rule_fold(dockerignore[Top.build_context], {})
                     ELSE {}

\* ---------------------------------------------------- another registry

\* the resolution at the top is for an image outside the cache registry
RegistryMismatch == At("start") /\ Top.registry # DOCKER_REGISTRY

\* the only thing such a resolution does is return the empty string: no
\* pull, build, tag, push, digest lookup, manifest or directory change
ReturnsEmpty ==
    /\ Len(logged_by_step) = 1
    /\ logged_by_step[1].op = "return" /\ logged_by_step[1].ok
    /\ logged_by_step[1].val = <<>>
    /\ remote' = remote /\ local' = local /\ cwd' = cwd
    /\ hist' = hist /\ nextId' = nextId /\ nfaults' = nfaults

\* at top level that is exit status 3; below, the caller absorbs the empty
\* string and goes on with its next parent
EmptyReceived ==
    IF Len(stack) = 1
    THEN /\ stack' = <<>>
         /\ result' = [status |-> "exit", code |-> 3, val |-> <<>>]
    ELSE /\ Len(stack') = Len(stack) - 1
         /\ stack'[1].hasher = stack[2].hasher
         /\ stack'[1].parent_digests = Append(stack[2].parent_digests, <<>>)
         /\ stack'[1].i = stack[2].i + 1
         /\ result' = result

\* C12: when the registry of the image being resolved is not the configured
\* cache registry, the resolution returns an empty result, performs no pull,
\* build, tag, push or digest lookup and reads no manifest; at top level
\* this gives the failure exit status.
C12_RegistryMismatchNoOp ==
    [][RegistryMismatch => (ReturnsEmpty /\ EmptyReceived)]_vars

\* an invocation for an image of another registry ended with status 3 and
\* did nothing else
C12_Witness ==
    /\ args.registry # DOCKER_REGISTRY
    /\ result = [status |-> "exit", code |-> 3, val |-> <<>>]
    /\ Len(log) = 1 /\ log[1].op = "return"

\* ------------------------------------------------------ how an invocation ends

last_logged == log[Len(log)]
logged_before_last == log[Len(log) - 1]

\* the top-level resolution returned a digest
EndedWithDigest ==
    /\ result.status = "exit" /\ result.code = 0 /\ result.val # <<>>
    /\ last_logged.op = "return" /\ last_logged.ok /\ last_logged.depth = 1

\* the top-level resolution returned nothing: its registry is not the cache
\* registry, or its own build, tag, push or digest lookup after the push
\* failed
EndedWithStatus3 ==
    /\ result.status = "exit" /\ result.code = 3 /\ result.val = <<>>
    /\ last_logged.op = "return" /\ last_logged.depth = 1
    /\ \/ Len(log) = 1 /\ args.registry # DOCKER_REGISTRY
       \/ /\ Len(log) >= 2
          /\ logged_before_last.op \in {"build", "tag", "push", "digest"}
          /\ ~logged_before_last.ok /\ logged_before_last.depth = 1

\* an exception left build_with_cache: a manifest is missing, a parent
\* resolution returned None, or an existing version tag has no digest
EndedWithException ==
    /\ result.status = "exception" /\ result.code \notin {0, 3}
    /\ Len(log) >= 2 /\ last_logged.op = "raise"
    /\ \/ logged_before_last.op = "locate" /\ ~logged_before_last.ok
       \/ /\ logged_before_last.op = "return" /\ ~logged_before_last.ok
          /\ logged_before_last.depth >= 2
       \/ /\ logged_before_last.op = "digest" /\ ~logged_before_last.ok
          /\ Len(log) >= 3
          /\ log[Len(log) - 2].op = "pull" /\ log[Len(log) - 2].ok

\* C13 as stated: build_with_cache returns 0 exactly when the top-level
\* resolution gives a non-empty digest, returns 3 in every case in which it
\* gives none, and ends in no other way.
C13_Original ==
    Finished => /\ result.status = "exit"
                /\ result.code \in {0, 3}
                /\ result.code = 0 <=> result.val # <<>>

\* C13 amended: build_with_cache returns 0 exactly when the top-level
\* resolution gives a non-empty digest; it returns 3 when the image is not
\* of the cache registry or when the build, a tag, a push or the digest
\* lookup after the push of the top-level image itself fails; and it ends
\* with an exception, returning nothing, when a manifest is missing, when
\* the resolution of a parent fails, or when an existing version tag has no
\* digest.
C13_ExitStatus ==
    Finished => (EndedWithDigest \/ EndedWithStatus3 \/ EndedWithException)

\* one invocation ended with status 3, the next one with an exception
C13_Witness ==
    /\ Finished /\ prev.valid
    /\ prev.result.status = "exit" /\ prev.result.code = 3
    /\ prev.args.registry = DOCKER_REGISTRY
    /\ EndedWithException

\* ------------------------------------------------------ a parent that fails

\* the resolution of a parent in the cache registry fails in this step: it
\* returns None (build, tag, push or digest lookup failed) or raises (its
\* manifest is missing, its existing version tag has no digest)
ParentFails ==
    /\ Len(stack) >= 2
    /\ Top.registry = DOCKER_REGISTRY
    /\ \E j \in 1..Len(logged_by_step) :
          \/ logged_by_step[j].op = "return" /\ ~logged_by_step[j].ok
          \/ logged_by_step[j].op = "raise"

\* nothing was or will be done for the images that depend on that parent:
\* every frame is left, and the log of the invocation holds no hash, build,
\* tag or push of any frame below the failing one
DependentsUntouched ==
    /\ stack' = <<>>
    /\ \A k \in 2..Len(stack) : \A i \in 1..Len(log') :
          (log'[i].depth = depth_of(k) /\ log'[i].name = stack[k].image_name)
             => log'[i].op \notin {"hash", "build", "tag", "push"}

\* the invocation has ended, and not with success
FailureAtTop ==
    /\ result'.status \in {"exit", "exception"}
    /\ ~(result'.status = "exit" /\ result'.code = 0)
    /\ result'.val = <<>>

failed_builds == { i \in 1..Len(log) : log[i].op = "build" /\ ~log[i].ok }

\* the resolution that ran the build returns None right after it
EndsResolution(i) ==
    /\ i < Len(log)
    /\ log[i + 1].op = "return" /\ ~log[i + 1].ok
    /\ log[i + 1].name = log[i].name /\ log[i + 1].depth = log[i].depth

\* nothing of that image was pushed before the build, and nothing of it is
\* tagged, pushed or built after it
NothingPublished(i) ==
    \A j \in 1..Len(log) :
        log[j].name = log[i].name =>
            /\ j < i => log[j].op # "push"
            /\ j > i => log[j].op \notin {"tag", "push", "build"}

\* C15: when the build command of an image returns a non-zero status, the
\* resolution of that image ends in failure, with no push before it and no
\* tag or push of that image after it, and the build is not run again in
\* that invocation; the invocation does not end in success.
C15_BuildFailureFatal ==
    \A i \in failed_builds :
        /\ EndsResolution(i)
        /\ NothingPublished(i)
        /\ Finished /\ ~(result.status = "exit" /\ result.code = 0)

\* the build of a parent failed under an image that names it twice
C15_Witness ==
    /\ Finished /\ args.name = "app"
    /\ Len(dockerfiles[DockerfilePath["app"]].parent_images) = 2
    /\ \E i \in failed_builds : log[i].name = "base" /\ log[i].depth = 2

\* --------------------------------------------------------------- extra tags

\* the version tag of the frame has just been applied (cli.py 185-187), or
\* it is found in the registry with a digest in this step (cli.py 56-67)
VersionTagApplied == At("extra")
VersionTagReused ==
    /\ At("existing")
    /\ logged_by_step # <<>>
    /\ logged_by_step[1].op = "digest" /\ logged_by_step[1].ok

\* the docker tag calls of the step that start from the version tag
extra_attempts ==
    { j \in 1..Len(logged_by_step) :
        /\ logged_by_step[j].op = "tag"
        /\ logged_by_step[j].a = version_ref(1) }
attempts_to(dst) == { j \in extra_attempts : logged_by_step[j].b = dst }

\* one call for every --extra-tag and one for every --extra-name
AttemptedOnce ==
    /\ \A k \in 1..Len(args.extra_tag) :
          Cardinality(attempts_to(ImageRef(Top, args.extra_tag[k]))) = 1
    /\ \A k \in 1..Len(args.extra_name) :
          Cardinality(attempts_to(args.extra_name[k])) = 1
    /\ Cardinality(extra_attempts) = Len(args.extra_tag) + Len(args.extra_name)

\* a call that succeeded took effect whatever happened to the others, and
\* the version tag still names what it named
OthersTakeEffect ==
    ~args.dry_run =>
        /\ version_ref(1) \in DOMAIN local /\ version_ref(1) \in DOMAIN local'
        /\ local'[version_ref(1)] = local[version_ref(1)]
        /\ \A j \in extra_attempts :
              logged_by_step[j].ok =>
                 /\ logged_by_step[j].b \in DOMAIN local'
                 /\ local'[logged_by_step[j].b] = local[version_ref(1)]

\* after a new version tag the frame goes on to its push, whichever calls
\* failed
PushNotPrevented ==
    /\ stack' = <<[Top EXCEPT !.pc = "push_final"]>> \o Tail(stack)
    /\ result' = result /\ remote' = remote

\* after a reused version tag the digest that was read is returned,
\* whichever calls failed
DigestNotAffected ==
    LET ret == logged_by_step[Len(logged_by_step)]
    IN /\ ret.op = "return" /\ ret.ok /\ ret.val = logged_by_step[1].val
       /\ ret.val # <<>>
       /\ Len(stack) = 1 =>
             result' = [status |-> "exit", code |-> 0, val |-> ret.val]

\* the push of the version tag is the step after the extra tags
PushAttempted ==
    /\ logged_by_step # <<>>
    /\ logged_by_step[1].op = "push" /\ logged_by_step[1].a = version_ref(1)

\* C16: whenever the version tag is reused or newly applied, every extra
\* tag and every extra name of the request is attempted exactly once; a
\* failure of one prevents neither the others nor the push of the version
\* tag, and the digest and exit status do not depend on which of them fail.
C16_ExtraTagsBestEffort ==
    /\ [][VersionTagApplied =>
             (AttemptedOnce /\ OthersTakeEffect /\ PushNotPrevented)]_vars
    /\ [][VersionTagReused =>
             (AttemptedOnce /\ OthersTakeEffect /\ DigestNotAffected)]_vars
    /\ [][At("push_final") => PushAttempted]_vars

\* the first extra tag failed, the second was applied, and the invocation
\* pushed the version tag and returned its digest
C16_Witness ==
    /\ result.status = "exit" /\ result.code = 0
    /\ \E i \in 1..Len(log) : \E j \in (i + 1)..Len(log) : \E k \in (j + 1)..Len(log) :
          /\ log[i].op = "tag" /\ ~log[i].ok /\ log[i].depth = 1
          /\ log[j].op = "tag" /\ log[j].ok /\ log[j].a = log[i].a
          /\ log[j].b \in DOMAIN local
          /\ log[k].op = "push" /\ log[k].ok /\ log[k].a = log[i].a

\* ------------------------------------------------------------------ dry-run

\* a step of a resolution of a dry-run invocation
DryRunning == args.dry_run /\ result.status = "running"

\* the step sends no pull to the docker client and changes neither the
\* registry, nor the images and tags of the local daemon, nor the record of
\* what was built
NothingExecuted ==
    /\ remote' = remote
    /\ local' = local
    /\ nextId' = nextId
    /\ hist' = hist
    /\ \A j \in 1..Len(logged_by_step) : logged_by_step[j].op # "pull"

\* C17: during a dry-run invocation no build, tag, push or pull is
\* executed, so the tags in the registry and the digest each of them points
\* to are the same after the invocation as before it, for every image in
\* the parent chain.
C17_DryRunMutatesNothing == [][DryRunning => NothingExecuted]_vars

\* a dry-run invocation went through the build, tag and push steps of an
\* image and of its parent and ended
C17_Witness ==
    /\ args.dry_run /\ Finished
    /\ \E i \in 1..Len(log) : log[i].op = "build" /\ log[i].depth = 2
    /\ \E i \in 1..Len(log) : log[i].op = "build" /\ log[i].depth = 1
    /\ \E i \in 1..Len(log) : log[i].op = "push" /\ log[i].depth = 1
    /\ \E i \in 1..Len(log) : log[i].op = "tag" /\ log[i].depth = 1

\* ------------------------------------------------- dry-run and the build step

\* the top-level resolution of the invocation found its manifest
ManifestFound ==
    \E i \in 1..Len(log) : log[i].op = "locate" /\ log[i].ok /\ log[i].depth = 1

\* the top-level resolution got to the build command
ReachedBuilding ==
    \E i \in 1..Len(log) : log[i].op = "build" /\ log[i].depth = 1

\* C18: in dry-run mode every resolution of an image of the cache registry
\* whose manifest exists, one with parents in the cache registry included,
\* falls through both cache checks and reaches the build step whatever the
\* registry holds; so no such resolution is over without having reached it.
C18_DryRunReachesBuilding ==
    (args.dry_run /\ Finished /\ args.registry = DOCKER_REGISTRY /\ ManifestFound)
        => ReachedBuilding

\* ----------------------------------------------------------------- no retry

\* two entries of the log are the same external call: the same command
\* with the same arguments
same_call(i, j) ==
    /\ log[i].op \in {"pull", "build", "tag", "push"}
    /\ log[j].op = log[i].op /\ log[j].a = log[i].a /\ log[j].b = log[i].b

\* two entries of the log belong to one resolution: the same frame wrote
\* them, and it did not return in between
same_resolution(i, j) ==
    /\ log[i].depth = log[j].depth /\ log[i].name = log[j].name
    /\ \A k \in i..j : ~(log[k].op = "return" /\ log[k].depth = log[i].depth)

\* C19: within one resolution every external call is attempted exactly
\* once: no pull is issued twice for the same reference and no build, tag or
\* push twice with the same arguments, for every cache registry, the
\* compiled-in default included.
C19_NoRetry ==
    \A i \in 1..Len(log) : \A j \in (i + 1)..Len(log) :
        same_resolution(i, j) => ~same_call(i, j)

\* ------------------------------------------------- state shared between calls

\* the frame that is going through its parents, or is about to hash its
\* files, still works in the directory it entered
ContextKept == At("parents") => cwd = Top.build_context

\* the files the frame has just hashed are those its source patterns match
\* in its own build context
OwnFilesHashed ==
    At("check_hash") =>
        /\ last_logged.op = "hash"
        /\ last_logged.files =
              absorbed_files(fs, listdir, Top.build_context, Top.ignored,
                  srcs_of(Top.image_name,
                          dockerfiles[locate_dockerfile(Top.image_name)]))

\* C20: the resolution of a parent leaves unchanged the state its caller
\* uses afterwards, the working directory in particular, so that the files
\* a child hashes are the same whether or not its parents were resolved in a
\* build context of their own.
C20_NoCrossCallSharing == ContextKept /\ OwnFilesHashed

\* -------------------------------------------------- the digest that is returned

\* the entries of the step that are returns of a value / failed lookups
returns_of_step ==
    { j \in 1..Len(logged_by_step) :
        logged_by_step[j].op = "return" /\ logged_by_step[j].ok }
lookups_failed ==
    { j \in 1..Len(logged_by_step) :
        logged_by_step[j].op = "digest" /\ ~logged_by_step[j].ok }

\* a resolution of an image of the cache registry returns a value in this
\* step, outside dry-run mode
ReturnsValue ==
    /\ stack # <<>> /\ Top.registry = DOCKER_REGISTRY
    /\ ~args.dry_run
    /\ returns_of_step # {}

\* the value is the digest the registry holds for image:versionTag
DigestInRegistry ==
    \A j \in returns_of_step :
        /\ logged_by_step[j].val # <<>>
        /\ logged_by_step[j].a = version_ref(1)
        /\ version_ref(1) \in DOMAIN remote'
        /\ remote'[version_ref(1)] = logged_by_step[j].val

\* a lookup that gives no digest ends the resolution without a value
LookupFailureFails ==
    /\ returns_of_step = {}
    /\ \E j \in 1..Len(logged_by_step) :
          \/ logged_by_step[j].op = "raise"
          \/ logged_by_step[j].op = "return" /\ ~logged_by_step[j].ok
    /\ Len(stack) = 1 => (Finished' /\ result'.val = <<>> /\ result'.code # 0)

\* C21: whenever a resolution of an image of the cache registry returns a
\* value outside dry-run mode, the value is a non-empty digest and the
\* registry holds image:versionTag with exactly that digest at that moment;
\* when the digest cannot be fetched, after a push or for an existing
\* version tag, the resolution fails instead of returning a value.
C21_ReturnedDigestInRegistry ==
    /\ [][ReturnsValue => DigestInRegistry]_vars
    /\ [][(stack # <<>> /\ lookups_failed # {}) => LookupFailureFails]_vars

\* an image was built and pushed, and the invocation returned the digest
\* the registry holds for its version tag
C21_Witness ==
    /\ ~args.dry_run /\ result.status = "exit" /\ result.code = 0
    /\ Ref(args.registry, args.name, args.git_sha_tag) \in DOMAIN remote
    /\ remote[Ref(args.registry, args.name, args.git_sha_tag)] = result.val
    /\ \E i \in 1..Len(log) : log[i].op = "build" /\ log[i].ok /\ log[i].depth = 1

\* ------------------------------------------------------- the order of the steps

\* the entry at which the resolution that wrote entry b began: the resolve
\* entry of its caller, 0 for the resolution at the top
started_at(b) ==
    LET is == { i \in 1..(b - 1) :
                  log[i].op = "resolve" /\ log[i].depth = log[b].depth - 1 }
    IN IF is = {} THEN 0 ELSE CHOOSE i \in is : \A j \in is : j <= i

\* what that resolution itself wrote before b, in order
own_before(b) ==
    SelectSeq([i \in 1..(b - 1) |-> i],
              LAMBDA i : i > started_at(b) /\ log[i].depth = log[b].depth)
own_resolves(b) ==
    SelectSeq(own_before(b), LAMBDA i : log[i].op = "resolve")

\* the parent references of the manifest of the image of entry b
manifest_parents(b) ==
    parent_images(dockerfiles[locate_dockerfile(log[b].name)], build_arg_of(args))

\* (1) the first thing the resolution did was a pull of the version tag,
\* and it failed
VersionTagMissed(b) ==
    /\ own_before(b) # <<>>
    /\ LET v == own_before(b)[1]
       IN log[v].op = "pull" /\ ~log[v].ok /\ log[v].a = log[b].b

\* (2) every parent of the manifest was resolved, in manifest order, and
\* each resolution was over, with all it caused, before the caller went on
ParentsResolved(b) ==
    /\ Len(own_resolves(b)) = Len(manifest_parents(b))
    /\ \A k \in 1..Len(own_resolves(b)) :
          LET r == own_resolves(b)[k]
          IN /\ log[r].a = manifest_parents(b)[k]
             /\ \E t \in (r + 1)..(b - 1) :
                   /\ log[t].op = "return" /\ log[t].ok
                   /\ log[t].depth = log[b].depth + 1
                   /\ log[t].a = manifest_parents(b)[k]
                   /\ \A x \in (r + 1)..t : log[x].depth > log[b].depth
                   /\ log[t + 1].depth = log[b].depth

\* (3) after the parents, the hash was taken and the pulls of the content
\* tag from the cache registry and from the legacy location both failed
ContentTagMissed(b) ==
    /\ b > 3
    /\ log[b - 3].op = "hash" /\ log[b - 3].a = log[b].a
    /\ log[b - 2].op = "pull" /\ ~log[b - 2].ok /\ log[b - 2].a = log[b].a
    /\ log[b - 1].op = "pull" /\ ~log[b - 1].ok
    /\ log[b - 1].a = Ref(LegacyHost, log[b].name, log[b].a.tag)
    /\ \A i \in (b - 3)..(b - 1) : log[i].depth = log[b].depth
    /\ \A k \in 1..Len(own_resolves(b)) : own_resolves(b)[k] < b - 3

BuildInOrder ==
    \A b \in 1..Len(log) :
        (log[b].op = "build" /\ log[b].run) =>
            VersionTagMissed(b) /\ ParentsResolved(b) /\ ContentTagMissed(b)

\* the step tags or pushes the version tag of the frame
PublishesVersionTag ==
    /\ stack # <<>> /\ ~args.dry_run
    /\ \E j \in 1..Len(logged_by_step) :
          \/ logged_by_step[j].op = "tag" /\ logged_by_step[j].b = version_ref(1)
          \/ logged_by_step[j].op = "push" /\ logged_by_step[j].a = version_ref(1)

\* the content tag is in the cache registry: it was found there, or came
\* from the legacy location and was pushed, or was built and pushed
ContentTagPublished ==
    /\ content_ref(1) \in DOMAIN remote
    /\ \E i \in 1..Len(log) :
          /\ log[Len(log)].depth = Len(stack) /\ i > started_at(Len(log))
          /\ log[i].depth = Len(stack) /\ log[i].a = content_ref(1) /\ log[i].ok
          /\ \/ log[i].op = "pull"
             \/ /\ log[i].op = "push" /\ i > 1
                /\ log[i - 1].ok /\ log[i - 1].depth = Len(stack)
                /\ \/ log[i - 1].op = "build" /\ log[i - 1].a = content_ref(1)
                   \/ log[i - 1].op = "tag" /\ log[i - 1].b = content_ref(1)

\* C22: outside dry-run mode the build of an image is invoked only after
\* the pull of its version tag failed, every parent reference was resolved
\* in manifest order and depth-first, and the pulls of its content tag from
\* the cache registry and from the legacy location both failed; the version
\* tag is tagged and pushed only after the content tag exists in the cache
\* registry (found, bridged from the legacy location and pushed, or built
\* and pushed).
C22_StepOrdering ==
    /\ []BuildInOrder
    /\ [][PublishesVersionTag => ContentTagPublished]_vars

\* an image with two parent references was built after both were resolved,
\* and its version tag was pushed
C22_Witness ==
    /\ ~args.dry_run /\ result.status = "exit" /\ result.code = 0
    /\ \E b \in 1..Len(log) :
          /\ log[b].op = "build" /\ log[b].ok /\ log[b].depth = 1
          /\ Len(own_resolves(b)) = 2
    /\ \E i \in 1..Len(log) :
          log[i].op = "push" /\ log[i].ok /\ log[i].depth = 1
          /\ log[i].a = Ref(args.registry, args.name, args.git_sha_tag)

\* ---------------------------------------------------------------- termination

\* a step of the one thread that runs _build, at an external call or at a
\* statement between two of them
CallStep ==
    \/ CheckPublishedTag \/ ReuseGitShaTag \/ EnterBuildContext
    \/ ResolveParent \/ CheckContentTag \/ CheckLegacyTag
    \/ TagOldHashImage \/ PushOldHashImage \/ Build \/ PushHashTag
    \/ TagFinal \/ TagExtra \/ PushFinal \/ GetDigest
BuildStep == CallStep \/ ComputeHash

\* the loop over the parents is over and the files are to be hashed: the
\* states in which ComputeHash can be taken
HashDue == At("parents") /\ Top.i > Len(Top.parent_images)

\* the state in which the last invocation the bounds allow is about to be
\* started: a cache registry, the manifests and the files as in Init
InitOnce ==
    /\ DOCKER_REGISTRY \in {DefaultRegistry, CiRegistry}
    /\ \E ps \in AppParents :
          dockerfiles = (DockerfilePath["app"] :> AppDockerfile(ps))
                        @@ (DockerfilePath["base"] :> BaseDockerfile)
    /\ environ \in { [n \in {"app", "base", "ghost"} |->
                        IF n = "base" THEN c ELSE <<>>] :
                     c \in {<<>>, BaseContext} }
    /\ dockerignore = InitIgnore
    /\ fs = InitFs
    /\ listdir = Reverse(sorted(SeqOf(Entries(InitFs))))
    /\ cwd = ArgsPath
    /\ remote = IF DOCKER_REGISTRY = LegacyHost THEN EmptyStore
                ELSE Put(EmptyStore,
                         Ref(LegacyHost, "base",
                             HashTag(InitBaseHash(listdir,
                                 IF environ["base"] = <<>> THEN ArgsPath
                                 ELSE environ["base"]))),
                         Digest(0))
    /\ local = EmptyStore
    /\ nextId = 0
    /\ args = NoArgs
    /\ stack = <<>>
    /\ result = Idle
    /\ log = <<>>
    /\ prev = NoPrev
    /\ snapshot = InitFs
    /\ hist = NoHist
    /\ ninv = MaxInvocations - 1 /\ nfaults = 0 /\ nedits = MaxEdits

\* one invocation, from its start to its end
NextOnce == StartInvocation \/ BuildStep

\* one invocation by a process that keeps running while it has a next
\* statement: every external call returns, and the hashing of finitely many
\* files ends (weak fairness of ComputeHash, with HashDue for its
\* enabledness); whether the invocation is started is left to the
\* environment
FairSpec ==
    /\ InitOnce /\ [][NextOnce]_vars
    /\ WF_vars(CallStep)
    /\ (<>[]HashDue => []<><<ComputeHash>>_vars)

\* the parent-reference paths that start at a reference: the reference
\* itself, and for an image with a manifest the paths through each of the
\* parent references of the manifest
RECURSIVE ref_paths(_)
RECURSIVE ref_paths_of(_, _)
ref_paths_of(parents, k) ==
    IF k > Len(parents) THEN 0
    ELSE ref_paths(parents[k]) + ref_paths_of(parents, k + 1)
ref_paths(ref) ==
    IF ref.name \notin DOMAIN DockerfilePath
       \/ locate_dockerfile(ref.name) \notin DOMAIN dockerfiles
    THEN 1
    ELSE 1 + ref_paths_of(parent_images(dockerfiles[locate_dockerfile(ref.name)],
                                        build_arg_of(args)), 1)

\* the resolutions of the invocation so far: the one at the top and one for
\* every recursive call
resolutions == 1 + Cardinality({ i \in 1..Len(log) : log[i].op = "resolve" })

ResolutionsBounded ==
    result.status # "idle" =>
        resolutions <= ref_paths(Ref(args.registry, args.name, args.git_sha_tag))

\* an invocation that is over ended with a digest, with an empty result, or
\* with a fatal error
EndedSomehow ==
    Finished =>
        \/ result.status = "exit" /\ result.code = 0 /\ result.val # <<>>
        \/ result.status = "exit" /\ result.code # 0 /\ result.val = <<>>
        \/ result.status = "exception"

\* C23: with acyclic parent references and external calls that return, a
\* top-level invocation terminates after finitely many recursive
\* resolutions, with a digest, an empty result or a fatal error; the number
\* of resolutions is at most the number of parent-reference paths from the
\* target.
C23_Termination ==
    /\ []ResolutionsBounded
    /\ []EndedSomehow
    /\ (result.status = "running") ~> Finished

\* an invocation for an image with a parent in the cache registry ended
\* with a digest after as many resolutions as there are parent-reference
\* paths from its target
C23_Witness ==
    /\ Finished /\ result.status = "exit" /\ result.code = 0
    /\ resolutions >= 3
    /\ resolutions = ref_paths(Ref(args.registry, args.name, args.git_sha_tag))

\* ------------------------------------------- a parent outside the cache registry

\* the frame that starts is the resolution of a parent reference whose
\* registry is not the cache registry
ForeignParent ==
    /\ Len(stack) >= 2
    /\ At("start") /\ Top.registry # DOCKER_REGISTRY

\* nothing is asked of the docker client or of the registry for it; the
\* only thing logged is the return of the empty value
NoCallForParent ==
    /\ \A j \in 1..Len(logged_by_step) :
          logged_by_step[j].op \notin {"pull", "build", "tag", "push", "digest"}
    /\ logged_by_step =
          << Entry("return", ImageRef(Top, Top.git_sha), NoRef, TRUE, <<>>) >>
    /\ remote' = remote /\ local' = local /\ nfaults' = nfaults /\ hist' = hist

\* the child is not failed by it: it takes the empty value as the digest of
\* this parent, which leaves its hash as it was, and goes on with the next
\* parent reference
ChildContinues ==
    /\ result' = result /\ result.status = "running"
    /\ stack' = << [stack[2] EXCEPT !.parent_digests = Append(@, <<>>),
                                    !.i = @ + 1] >> \o Tail(Tail(stack))
    /\ stack'[1].hasher = stack[2].hasher
    /\ stack'[1].pc = "parents"

\* C24: a parent reference whose registry differs from the cache registry
\* never makes the child fail and causes no pull, build, tag or push for
\* that parent: its resolution returns the empty value, which adds nothing
\* to the child's hash, and the child continues with the next parent.
C24_ForeignParentAbsorbed ==
    [][ForeignParent => (NoCallForParent /\ ChildContinues)]_vars

\* an image whose only parent is outside the cache registry was hashed,
\* built and returned with a digest
C24_Witness ==
    /\ result.status = "exit" /\ result.code = 0 /\ args.name = "base"
    /\ \E i \in 1..Len(log) : \E j \in (i + 1)..Len(log) : \E k \in (j + 1)..Len(log) :
          /\ log[i].op = "return" /\ log[i].depth = 2 /\ log[i].val = <<>>
          /\ log[i].a.host # DOCKER_REGISTRY
          /\ log[j].op = "hash" /\ log[j].depth = 1
          /\ log[k].op = "build" /\ log[k].ok /\ log[k].depth = 1

\* -------------------------------------------------------------- build arguments

\* the values tried for a build argument that no manifest refers to
ExtraArgValues == {"1", "2"}

\* main() for `build --build-arg EXTRA=v`: as StartInvocation, for an image
\* of the cache registry outside dry-run mode, with one more build argument
StartWithBuildArg ==
    /\ result.status # "running"
    /\ ninv < MaxInvocations
    /\ \E name \in {"app", "base"}, sha \in 1..(ninv + 1), v \in ExtraArgValues :
          /\ args' = [registry |-> DOCKER_REGISTRY, name |-> name, git_sha |-> sha,
                      git_sha_tag |-> GitShaTag(sha), dry_run |-> FALSE,
                      build_arg |-> ("REGISTRY" :> DOCKER_REGISTRY) @@ ("EXTRA" :> v),
                      extra_tag |-> << Lit(2) >>,
                      extra_name |-> << Ref(OtherRegistry, name, Lit(2)) >>,
                      path |-> ArgsPath]
          /\ stack' = << Frame(DOCKER_REGISTRY, name, GitShaTag(sha)) >>
    /\ cwd' = ArgsPath
    /\ result' = Running
    /\ log' = <<>>
    /\ prev' = Summary(args, result, log, snapshot)
    /\ snapshot' = fs
    /\ ninv' = ninv + 1
    /\ UNCHANGED <<envVars, fs, remote, local, nextId, hist, nfaults, nedits>>

NextArgs == StartWithBuildArg \/ BuildStep

\* invocations that differ in the value of a build argument, over files
\* that do not change
SpecArgs == Init /\ [][NextArgs]_vars

\* the invocation and the one before it differ in the value of the build
\* argument and in nothing else
OnlyBuildArgDiffers ==
    /\ prev.valid
    /\ "EXTRA" \in DOMAIN prev.args.build_arg
    /\ args.build_arg["EXTRA"] # prev.args.build_arg["EXTRA"]
    /\ [args EXCEPT !.build_arg = prev.args.build_arg] = prev.args
    /\ prev.fs = snapshot

\* the content tag the first of them computed for the image it was for
first_content_ref ==
    Ref(DOCKER_REGISTRY, args.name, HashTag(prev.hashes[args.name][1]))

\* the resolution at the top of the second one has computed its content tag
ContentTagComputed ==
    /\ Len(stack) = 1
    /\ Top.pc \notin {"start", "existing", "context", "parents"}

\* C25: the content digest of an image depends only on the digests of its
\* parents and on the bytes of its non-ignored files: two requests that
\* differ only in the value of a build argument which changes neither the
\* parent references nor the source patterns compute the same content tag,
\* and the second, finding the artifact of the first in the registry,
\* reuses it and does not get to the build command.
C25_BuildArgIrrelevant ==
    (OnlyBuildArgDiffers /\ prev.hashes[args.name] # <<>> /\ ContentTagComputed)
        => /\ ImageRef(Top, Top.hash_tag) = first_content_ref
           /\ At("build") => first_content_ref \notin DOMAIN remote

====
